---- MODULE Spec2Model ----
(***************************************************************************)
(* Verification model of the stock / stochastic-volatility simulator:      *)
(*   - src/src/stocksim/stocksim.c : mexFunction and the worker stockPath  *)
(*   - src/src/euler_weak.m        : the weak-convergence harness          *)
(*                                                                         *)
(* Floating-point values are kept as expression terms (tuples whose first  *)
(* element names the operation), built exactly in the order the C code     *)
(* evaluates them.  The scheme step functions (euler_stock, ...) live in   *)
(* numerical.h, which is not part of the sources; a call to one of them is *)
(* the term <<name, arg1, ..., arg5>>.                                     *)
(***************************************************************************)
EXTENDS Integers, Sequences, FiniteSets, TLC

VARIABLES
    prhs,          \* the eleven right-hand-side arguments of the MEX call (plus nrhs / nlhs)
    run,           \* 1 = first invocation, 2 = an independent second invocation
    pc,            \* position inside mexFunction / stockPath
    errmsg,        \* message handed to mexErrMsgTxt ("" while no error was raised)
    N,             \* mwSize N  (number of steps per path)
    samples,       \* mwSize samples
    num_method,    \* char num_method
    plhs,          \* TRUE once STOCKPATHS, VOLPATHS, XIPATHS were created
    stock_paths,   \* contents of STOCKPATHS, indexed 0 .. N*samples-1
    vol_paths,     \* contents of VOLPATHS
    xi_paths,      \* contents of XIPATHS
    wcount,        \* number of writes stockPath made to each element index
    oob,           \* element indices stockPath accessed outside the matrices
    rng_stock,     \* gsl_rng *rng_stock
    rng_vol,       \* gsl_rng *rng_vol
    i, j, index,   \* loop variables of stockPath
    first,         \* result of the first invocation, kept for comparison
    lround_nonfinite, \* what this platform's lround returns for an infinity or a NaN
    hw             \* state of the convergence harness (euler_weak.m)

mexVars == <<prhs, run, pc, errmsg, N, samples, num_method, plhs, stock_paths,
             vol_paths, xi_paths, wcount, oob, rng_stock, rng_vol, i, j, index, first,
             lround_nonfinite>>

vars == <<prhs, run, pc, errmsg, N, samples, num_method, plhs, stock_paths,
          vol_paths, xi_paths, wcount, oob, rng_stock, rng_vol, i, j, index, first,
          lround_nonfinite, hw>>

(***************************************************************************)
(* Bounds of the model                                                     *)
(***************************************************************************)
MaxSeed == 1
MaxSamples == 2
MaxT == 3
MwSizeBits == 6

(***************************************************************************)
(* Program constants                                                       *)
(***************************************************************************)
EULER == 0
MILSTEIN == 1
RK == 2
NO_METHOD == 3
NRHS == 11
NLHS == 3

MwSizeModulus == 2 ^ MwSizeBits
\* the largest element count mxCreateDoubleMatrix can serve: 8 bytes per double
MaxElements == MwSizeModulus \div 8

(***************************************************************************)
(* Strings are sequences of characters.                                    *)
(***************************************************************************)
STR_EULER == <<"e", "u", "l", "e", "r">>
STR_MILSTEIN == <<"m", "i", "l", "s", "t", "e", "i", "n">>
STR_RK == <<"r", "k">>

MethodInputs ==
    { STR_EULER, STR_MILSTEIN, STR_RK,
      <<"e", "u", "l", "e", "r", "x">>,
      <<"r", "k", "4">>,
      <<"e", "u", "l">>,
      <<"E", "u", "l", "e", "r">>,
      << >> }

\* the character of a NUL-terminated string at 1-based position k
CharAt(s, k) == IF k <= Len(s) THEN s[k] ELSE "NUL"

\* strncmp(a, b, n): 0 when the first n characters agree (comparison stops at a
\* NUL), non-zero otherwise; only the zero / non-zero distinction is used.
RECURSIVE StrncmpFrom(_, _, _, _)
StrncmpFrom(a, b, n, k) ==
    IF k > n THEN 0
    ELSE IF CharAt(a, k) # CharAt(b, k) THEN 1
    ELSE IF CharAt(a, k) = "NUL" THEN 0
    ELSE StrncmpFrom(a, b, n, k + 1)

strncmp(a, b, n) == StrncmpFrom(a, b, n, 1)

strlen(s) == Len(s)

(***************************************************************************)
(* Integer helpers                                                         *)
(***************************************************************************)
Abs(x) == IF x < 0 THEN -x ELSE x

Sign(x) == IF x < 0 THEN -1 ELSE IF x > 0 THEN 1 ELSE 0

\* lround(t / dt) for dt # 0: round to nearest, halfway cases away from zero
lround(t, dt) == Sign(t) * Sign(dt) * ((2 * Abs(t) + Abs(dt)) \div (2 * Abs(dt)))

\* lround of an infinity or a NaN (t / 0): the result is unspecified
LroundUnspecified == { -(MwSizeModulus \div 2), 0, (MwSizeModulus \div 2) - 1 }

\* conversion of a long to the unsigned mwSize
ToMwSize(n) == n % MwSizeModulus

(***************************************************************************)
(* Expression terms for floating-point values                              *)
(***************************************************************************)
Lit(x) == <<"lit", x>>
Arg(name) == <<"arg", name>>
Add(a, b) == <<"add", a, b>>
Sub(a, b) == <<"sub", a, b>>
Mul(a, b) == <<"mul", a, b>>
Div(a, b) == <<"div", a, b>>
Sqrt(a) == <<"sqrt", a>>
Garbage == <<"garbage">>

\* the value returned by the k-th call of gsl_ran_gaussian(r, 1) on a
\* generator that was set with the given seed
Gaussian(seed, k) == <<"gsl_ran_gaussian", seed, k>>

NullRng == [state |-> "null", seed |-> 0, calls |-> 0]

\* a freshly created N-by-samples real matrix: all elements zero
mxCreateDoubleMatrix(n, s) == [k \in 0 .. (n * s - 1) |-> Lit("0")]

NoMatrix == [k \in {} |-> Lit("0")]

Read(m, k) == IF k \in DOMAIN m THEN m[k] ELSE Garbage

Write(m, k, v) == IF k \in DOMAIN m THEN [m EXCEPT ![k] = v] ELSE m

Count(w, k) == IF k \in DOMAIN w THEN [w EXCEPT ![k] = @ + 1] ELSE w

(***************************************************************************)
(* The calls of the MEX function that are explored                         *)
(***************************************************************************)
WellFormedCalls ==
    [ nrhs : {NRHS}, nlhs : {NLHS}, allDouble : {TRUE}, isChar : {TRUE},
      seed : 0 .. MaxSeed,
      samples : -1 .. MaxSamples,
      Dt : {-1, 0, 1, 2, 4},
      T : -1 .. MaxT,
      alpha : {-1, 0, 1},
      method : MethodInputs ]

BaseCall ==
    [ nrhs |-> NRHS, nlhs |-> NLHS, allDouble |-> TRUE, isChar |-> TRUE,
      seed |-> 0, samples |-> 1, Dt |-> 1, T |-> 2, alpha |-> 1,
      method |-> STR_EULER ]

IllFormedCalls ==
    { [BaseCall EXCEPT !.nrhs = 10], [BaseCall EXCEPT !.nlhs = 2],
      [BaseCall EXCEPT !.allDouble = FALSE], [BaseCall EXCEPT !.isChar = FALSE] }

Calls == WellFormedCalls \cup IllFormedCalls

NoResult == [valid |-> FALSE, rows |-> 0, cols |-> 0,
             stock |-> NoMatrix, vol |-> NoMatrix, xi |-> NoMatrix]

HwIdle == [pc |-> "idle"]

\* the local variables of mexFunction at entry
EnterMex ==
    /\ pc' = "args"
    /\ errmsg' = ""
    /\ N' = 0
    /\ samples' = 0
    /\ num_method' = NO_METHOD
    /\ plhs' = FALSE
    /\ stock_paths' = NoMatrix
    /\ vol_paths' = NoMatrix
    /\ xi_paths' = NoMatrix
    /\ wcount' = [k \in {} |-> 0]
    /\ oob' = {}
    /\ rng_stock' = NullRng
    /\ rng_vol' = NullRng
    /\ i' = 0
    /\ j' = 0
    /\ index' = 0

Init ==
    /\ prhs \in Calls
    /\ run = 1
    /\ pc = "args"
    /\ errmsg = ""
    /\ N = 0
    /\ samples = 0
    /\ num_method = NO_METHOD
    /\ plhs = FALSE
    /\ stock_paths = NoMatrix
    /\ vol_paths = NoMatrix
    /\ xi_paths = NoMatrix
    /\ wcount = [k \in {} |-> 0]
    /\ oob = {}
    /\ rng_stock = NullRng
    /\ rng_vol = NullRng
    /\ i = 0
    /\ j = 0
    /\ index = 0
    /\ first = NoResult
    /\ lround_nonfinite \in LroundUnspecified
    /\ hw = HwIdle

\* mexErrMsgTxt(msg): the MEX function is left at once
mexErrMsgTxt(msg) ==
    /\ pc' = "error"
    /\ errmsg' = msg

(***************************************************************************)
(* mexFunction, statement by statement                                     *)
(***************************************************************************)
CheckArgCount ==
    /\ pc = "args"
    /\ IF prhs.nrhs # NRHS
         THEN mexErrMsgTxt("Eleven input arguments required.")
         ELSE IF prhs.nlhs # NLHS
                THEN mexErrMsgTxt("Three output arguments required.")
                ELSE pc' = "types" /\ errmsg' = errmsg
    /\ UNCHANGED <<prhs, run, N, samples, num_method, plhs, stock_paths, vol_paths,
                   xi_paths, wcount, oob, rng_stock, rng_vol, i, j, index, first, lround_nonfinite, hw>>

CheckTypes ==
    /\ pc = "types"
    /\ IF ~prhs.allDouble
         THEN mexErrMsgTxt("All parameters have to be numbers except num_method.")
         ELSE pc' = "alpha" /\ errmsg' = errmsg
    /\ UNCHANGED <<prhs, run, N, samples, num_method, plhs, stock_paths, vol_paths,
                   xi_paths, wcount, oob, rng_stock, rng_vol, i, j, index, first, lround_nonfinite, hw>>

CheckAlpha ==
    /\ pc = "alpha"
    /\ IF ~(prhs.alpha > 0)
         THEN mexErrMsgTxt("alpha must be larger than zero")
         ELSE pc' = "char" /\ errmsg' = errmsg
    /\ UNCHANGED <<prhs, run, N, samples, num_method, plhs, stock_paths, vol_paths,
                   xi_paths, wcount, oob, rng_stock, rng_vol, i, j, index, first, lround_nonfinite, hw>>

CheckChar ==
    /\ pc = "char"
    /\ IF ~prhs.isChar
         THEN mexErrMsgTxt("num_method must be a char")
         ELSE pc' = "alloc" /\ errmsg' = errmsg
    /\ UNCHANGED <<prhs, run, N, samples, num_method, plhs, stock_paths, vol_paths,
                   xi_paths, wcount, oob, rng_stock, rng_vol, i, j, index, first, lround_nonfinite, hw>>

\* lround(T / Dt), the division done in double precision
StepCount(t, dt) == IF dt = 0 THEN lround_nonfinite ELSE lround(t, dt)

\* N and samples are computed and the three output matrices are created
AllocateWith(n, s) ==
    /\ N' = n
    /\ samples' = s
    /\ IF n * s > MaxElements
         THEN /\ mexErrMsgTxt("Out of memory")
              /\ UNCHANGED <<plhs, stock_paths, vol_paths, xi_paths, wcount>>
         ELSE /\ pc' = "method"
              /\ errmsg' = errmsg
              /\ plhs' = TRUE
              /\ stock_paths' = mxCreateDoubleMatrix(n, s)
              /\ vol_paths' = mxCreateDoubleMatrix(n, s)
              /\ xi_paths' = mxCreateDoubleMatrix(n, s)
              /\ wcount' = [k \in 0 .. (n * s - 1) |-> 0]

Allocate ==
    /\ pc = "alloc"
    /\ AllocateWith(ToMwSize(StepCount(prhs.T, prhs.Dt)), ToMwSize(prhs.samples))
    /\ UNCHANGED <<prhs, run, num_method, oob, rng_stock, rng_vol, i, j, index, first, lround_nonfinite, hw>>

\* the method selected by the chain of strncmp tests
MethodOf(str) ==
    IF strncmp(str, STR_EULER, strlen(STR_EULER)) = 0 THEN EULER
    ELSE IF strncmp(str, STR_MILSTEIN, strlen(STR_MILSTEIN)) = 0 THEN MILSTEIN
    ELSE IF strncmp(str, STR_RK, strlen(STR_RK)) = 0 THEN RK
    ELSE NO_METHOD

\* variant: the selector is only stored, the error is left to stockPath's dispatch
SelectMethodDeferred ==
    /\ pc = "method"
    /\ num_method' = MethodOf(prhs.method)
    /\ pc' = "rng_alloc"
    /\ UNCHANGED <<prhs, run, errmsg, N, samples, plhs, stock_paths, vol_paths,
                   xi_paths, wcount, oob, rng_stock, rng_vol, i, j, index, first,
                   lround_nonfinite, hw>>

SelectMethod ==
    /\ pc = "method"
    /\ IF MethodOf(prhs.method) = NO_METHOD
         THEN /\ mexErrMsgTxt("Only 'euler', 'milstein' and 'rk' are implemented")
              /\ num_method' = num_method
         ELSE /\ num_method' = MethodOf(prhs.method)
              /\ pc' = "rng_alloc"
              /\ errmsg' = errmsg
    /\ UNCHANGED <<prhs, run, N, samples, plhs, stock_paths, vol_paths,
                   xi_paths, wcount, oob, rng_stock, rng_vol, i, j, index, first, lround_nonfinite, hw>>

gsl_rng_alloc == [state |-> "alloc", seed |-> 0, calls |-> 0]

gsl_rng_set(r, s) == [r EXCEPT !.state = "set", !.seed = s, !.calls = 0]

gsl_rng_free(r) == [r EXCEPT !.state = "freed"]

CreateRng ==
    /\ pc = "rng_alloc"
    /\ rng_stock' = gsl_rng_alloc
    /\ rng_vol' = gsl_rng_alloc
    /\ pc' = "rng_set"
    /\ UNCHANGED <<prhs, run, errmsg, N, samples, num_method, plhs, stock_paths, vol_paths,
                   xi_paths, wcount, oob, i, j, index, first, lround_nonfinite, hw>>

\* variant: the generators are set on the first invocation only
SeedRngOnce ==
    /\ pc = "rng_set"
    /\ rng_stock' = IF run = 1 THEN gsl_rng_set(rng_stock, prhs.seed)
                               ELSE [rng_stock EXCEPT !.state = "set"]
    /\ rng_vol' = IF run = 1 THEN gsl_rng_set(rng_vol, prhs.seed + 1)
                             ELSE [rng_vol EXCEPT !.state = "set"]
    /\ pc' = "call"
    /\ UNCHANGED <<prhs, run, errmsg, N, samples, num_method, plhs, stock_paths, vol_paths,
                   xi_paths, wcount, oob, i, j, index, first, lround_nonfinite, hw>>

SeedRng ==
    /\ pc = "rng_set"
    /\ rng_stock' = gsl_rng_set(rng_stock, prhs.seed)
    /\ rng_vol' = gsl_rng_set(rng_vol, prhs.seed + 1)
    /\ pc' = "call"
    /\ UNCHANGED <<prhs, run, errmsg, N, samples, num_method, plhs, stock_paths, vol_paths,
                   xi_paths, wcount, oob, i, j, index, first, lround_nonfinite, hw>>

(***************************************************************************)
(* stockPath                                                               *)
(***************************************************************************)
\* the pair of step functions the dispatch at the head of stockPath selects
num_method_stock(m) ==
    IF m = EULER THEN "euler_stock"
    ELSE IF m = MILSTEIN THEN "milstein_stock"
    ELSE IF m = RK THEN "rk_stock"
    ELSE "NULL"

num_method_vol(m) ==
    IF m = EULER THEN "euler_vol"
    ELSE IF m = MILSTEIN THEN "milstein_vol"
    ELSE IF m = RK THEN "rk_vol"
    ELSE "NULL"

\* a call through one of the two function pointers
CallScheme(fn, a, b, c, d, e) == <<fn, a, b, c, d, e>>

\* entry of stockPath: the dispatch, then index = 0 and the head of the outer loop
StockPathEnter ==
    /\ pc = "call"
    /\ IF num_method \notin {EULER, MILSTEIN, RK}
         THEN mexErrMsgTxt("Only 'euler', 'milstein' and 'rk' are implemented")
         ELSE pc' = "sample" /\ errmsg' = errmsg
    /\ index' = 0
    /\ i' = 0
    /\ UNCHANGED <<prhs, run, N, samples, num_method, plhs, stock_paths, vol_paths,
                   xi_paths, wcount, oob, rng_stock, rng_vol, j, first, lround_nonfinite, hw>>

\* variant: xi_paths receives sigma_0
InitialValuesCopied == [stock |-> Arg("S_0"), vol |-> Arg("sigma_0"), xi |-> Arg("sigma_0")]

\* the initial values stored at the head of every path
InitialValues == [stock |-> Arg("S_0"), vol |-> Arg("sigma_0"), xi |-> Arg("xi_0")]

\* head of the outer loop: either the initial values of sample i are stored, or
\* the loop is over and stockPath returns
SampleInit ==
    /\ pc = "sample"
    /\ IF i < samples
         THEN /\ stock_paths' = Write(stock_paths, index, InitialValues.stock)
              /\ vol_paths' = Write(vol_paths, index, InitialValues.vol)
              /\ xi_paths' = Write(xi_paths, index, InitialValues.xi)
              /\ wcount' = Count(wcount, index)
              /\ oob' = IF index \in DOMAIN stock_paths THEN oob ELSE oob \cup {index}
              /\ index' = index + 1
              /\ j' = 1
              /\ pc' = "step"
         ELSE /\ pc' = "free"
              /\ UNCHANGED <<stock_paths, vol_paths, xi_paths, wcount, oob, index, j>>
    /\ UNCHANGED <<prhs, run, errmsg, N, samples, num_method, plhs,
                   rng_stock, rng_vol, i, first, lround_nonfinite, hw>>

\* the fourth-order Runge-Kutta update of xi, from vol and xi at index - 1
RK4(vol, xi) ==
    LET inv == Div(Lit("1"), Arg("alpha"))
        k_1 == Mul(inv, Sub(vol, xi))
        k_2 == Mul(inv, Sub(Add(vol, Mul(Mul(Lit("0.5"), Arg("Dt")), k_1)), xi))
        k_3 == Mul(inv, Sub(Add(vol, Mul(Mul(Lit("0.5"), Arg("Dt")), k_2)), xi))
        k_4 == Mul(inv, Sub(Add(vol, Mul(Arg("Dt"), k_3)), xi))
    IN  Add(xi, Mul(Div(Arg("Dt"), Lit("6")),
                    Add(Add(Add(k_1, Mul(Lit("2"), k_2)), Mul(Lit("2"), k_3)), k_4)))

\* the Wiener increment made from the next draw of generator r
Phi(r) == Mul(Gaussian(r.seed, r.calls + 1), Sqrt(Arg("Dt")))

gsl_ran_gaussian(r) == [r EXCEPT !.calls = @ + 1]

\* variant: the xi update reads the vol just written
XiVolIndexCurrent(idx) == idx

\* element index the xi update reads vol from
XiVolIndex(idx) == idx - 1

\* one iteration of the inner loop, or its exit
Step ==
    /\ pc = "step"
    /\ IF j < N
         THEN LET phi_stock == Phi(rng_stock)
                  phi_vol == Phi(rng_vol)
                  newStock == CallScheme(num_method_stock(num_method),
                                         Read(stock_paths, index - 1),
                                         Read(vol_paths, index - 1),
                                         Arg("mu"), Arg("Dt"), phi_stock)
                  newVol == CallScheme(num_method_vol(num_method),
                                       Read(vol_paths, index - 1),
                                       Read(xi_paths, index - 1),
                                       Arg("p"), Arg("Dt"), phi_vol)
                  vol1 == Write(vol_paths, index, newVol)
                  newXi == RK4(Read(vol1, XiVolIndex(index)), Read(xi_paths, index - 1))
              IN  /\ rng_stock' = gsl_ran_gaussian(rng_stock)
                  /\ rng_vol' = gsl_ran_gaussian(rng_vol)
                  /\ stock_paths' = Write(stock_paths, index, newStock)
                  /\ vol_paths' = vol1
                  /\ xi_paths' = Write(xi_paths, index, newXi)
                  /\ wcount' = Count(wcount, index)
                  /\ oob' = oob \cup ({index - 1, index} \ DOMAIN stock_paths)
                  /\ index' = index + 1
                  /\ j' = j + 1
                  /\ UNCHANGED <<pc, i>>
         ELSE /\ i' = i + 1
              /\ pc' = "sample"
              /\ UNCHANGED <<stock_paths, vol_paths, xi_paths, wcount, oob,
                             rng_stock, rng_vol, index, j>>
    /\ UNCHANGED <<prhs, run, errmsg, N, samples, num_method, plhs, first, lround_nonfinite, hw>>

\* back in mexFunction: both generators are freed and the call returns
FreeRng ==
    /\ pc = "free"
    /\ rng_stock' = gsl_rng_free(rng_stock)
    /\ rng_vol' = gsl_rng_free(rng_vol)
    /\ pc' = "done"
    /\ UNCHANGED <<prhs, run, errmsg, N, samples, num_method, plhs, stock_paths, vol_paths,
                   xi_paths, wcount, oob, i, j, index, first, lround_nonfinite, hw>>

\* an access outside the matrices is undefined behaviour: the call may go on,
\* or the process may die at any later point of stockPath
Crash ==
    /\ pc \in {"sample", "step", "free"}
    /\ oob # {}
    /\ pc' = "crashed"
    /\ UNCHANGED <<prhs, run, errmsg, N, samples, num_method, plhs, stock_paths, vol_paths,
                   xi_paths, wcount, oob, rng_stock, rng_vol, i, j, index, first, lround_nonfinite, hw>>

\* the result seen by the caller
Result == [valid |-> pc = "done", rows |-> N, cols |-> samples,
           stock |-> stock_paths, vol |-> vol_paths, xi |-> xi_paths]

\* an independent second invocation with the same arguments
Restart ==
    /\ run = 1
    /\ pc \in {"done", "error"}
    /\ run' = 2
    /\ first' = Result
    /\ EnterMex
    /\ UNCHANGED <<prhs, lround_nonfinite, hw>>

Next ==
    \/ CheckArgCount
    \/ CheckTypes
    \/ CheckAlpha
    \/ CheckChar
    \/ Allocate
    \/ SelectMethod
    \/ CreateRng
    \/ SeedRng
    \/ StockPathEnter
    \/ SampleInit
    \/ Step
    \/ FreeRng
    \/ Crash
    \/ Restart

Spec == Init /\ [][Next]_vars

(***************************************************************************)
(* The weak-convergence harness euler_weak.m                               *)
(*                                                                         *)
(* S, sig and xi are written together at every index, so the three arrays  *)
(* are one array of cells.  A cell does not hold the floating-point value  *)
(* but where it comes from: the simulated time it stands for (in units of  *)
(* dtex) and the indices of r and r1 summed into the increment of the step *)
(* that produced it.  The lengths of the script are scaled down:           *)
(* Unit stands for 32, Base for 125 and NSample for 10000.                 *)
(***************************************************************************)
Unit == 2
Base == 3
NSample == 2
Levels == 4

\* number of fine increments per coarse step: 32, 64, 128, 256
Factor(c) == Unit * 2 ^ (c - 1)

\* timestep(c) in units of dtex: 0.0032, 0.0064, 0.0128, 0.0256 over 0.0001
Timestep(c) == Unit * 2 ^ (c - 1)

\* upper limit of the coarse loop: 1000, 500, 250, 125
CoarseLen(c) == Base * 2 ^ (Levels - c)

\* length of S, sig, xi, r and r1: 32000
FineLen == Base * Unit * 2 ^ (Levels - 1)

ZeroCell == [t |-> 0, from |-> 0, w |-> {}, w1 |-> {}]

HwStart ==
    [ pc |-> "rep", rep |-> 1, level |-> 0, i |-> 0,
      cell |-> [k \in 1 .. FineLen |-> ZeroCell],
      fine_log |-> [k \in {} |-> ZeroCell],
      solution_t |-> 0,
      mean_t |-> [c \in 1 .. Levels |-> 0],
      fine_terms |-> 0,
      mean_terms |-> [c \in 1 .. Levels |-> 0] ]

HarnessInit ==
    /\ prhs = BaseCall
    /\ run = 1
    /\ pc = "idle"
    /\ errmsg = ""
    /\ N = 0
    /\ samples = 0
    /\ num_method = NO_METHOD
    /\ plhs = FALSE
    /\ stock_paths = NoMatrix
    /\ vol_paths = NoMatrix
    /\ xi_paths = NoMatrix
    /\ wcount = [k \in {} |-> 0]
    /\ oob = {}
    /\ rng_stock = NullRng
    /\ rng_vol = NullRng
    /\ i = 0
    /\ j = 0
    /\ index = 0
    /\ first = NoResult
    /\ lround_nonfinite = 0
    /\ hw = HwStart

\* top of the repetition loop: r and r1 are drawn afresh, S(1), sig(1), xi(1) are set
RepBegin ==
    /\ hw.pc = "rep"
    /\ hw.rep <= NSample
    /\ hw' = [hw EXCEPT !.pc = "fine", !.i = 2,
                        !.cell[1] = ZeroCell,
                        !.fine_log = [k \in {} |-> ZeroCell]]
    /\ UNCHANGED mexVars

\* one step of the reference loop: S(i) from S(i-1) with r(i) and r1(i) over dtex
FineStep ==
    /\ hw.pc = "fine"
    /\ hw.i <= FineLen
    /\ LET new == [t |-> hw.cell[hw.i - 1].t + 1, from |-> hw.cell[hw.i - 1].t,
                   w |-> {hw.i}, w1 |-> {hw.i}]
       IN  hw' = [hw EXCEPT !.cell[hw.i] = new,
                            !.fine_log = [k \in DOMAIN hw.fine_log \cup {hw.i} |->
                                             IF k = hw.i THEN new ELSE hw.fine_log[k]],
                            !.i = hw.i + 1]
    /\ UNCHANGED mexVars

\* solution = S(32000) is added to meanew32000; the first coarse loop starts
FineFinish ==
    /\ hw.pc = "fine"
    /\ hw.i > FineLen
    /\ hw' = [hw EXCEPT !.solution_t = hw.cell[FineLen].t,
                        !.fine_terms = @ + 1,
                        !.pc = "coarse", !.level = 1, !.i = 2]
    /\ UNCHANGED mexVars

\* the indices of r (and r1) the inner z loop of coarse step i adds up
GroupOf(k, ii) == { k * ii - (k - z) : z \in 1 .. k }

\* one step of a coarse Euler loop, its inner z loop included
CoarseStep ==
    /\ hw.pc = "coarse"
    /\ hw.i <= CoarseLen(hw.level)
    /\ LET k == Factor(hw.level)
           new == [t |-> hw.cell[hw.i - 1].t + Timestep(hw.level),
                   from |-> hw.cell[hw.i - 1].t,
                   w |-> GroupOf(k, hw.i), w1 |-> GroupOf(k, hw.i)]
       IN  hw' = [hw EXCEPT !.cell[hw.i] = new, !.i = hw.i + 1]
    /\ UNCHANGED mexVars

\* the terminal value of a coarse loop is added to mean(level); the next
\* loop, or the next repetition, starts
CoarseFinish ==
    /\ hw.pc = "coarse"
    /\ hw.i > CoarseLen(hw.level)
    /\ hw' = [hw EXCEPT !.mean_t[hw.level] = hw.cell[CoarseLen(hw.level)].t,
                        !.mean_terms[hw.level] = @ + 1,
                        !.level = IF hw.level < Levels THEN hw.level + 1 ELSE 0,
                        !.i = 2,
                        !.pc = IF hw.level < Levels THEN "coarse" ELSE "rep",
                        !.rep = IF hw.level < Levels THEN hw.rep ELSE hw.rep + 1]
    /\ UNCHANGED mexVars

\* after the last repetition eweaknorm is computed
Report ==
    /\ hw.pc = "rep"
    /\ hw.rep > NSample
    /\ hw' = [hw EXCEPT !.pc = "done"]
    /\ UNCHANGED mexVars

HarnessNext ==
    \/ RepBegin
    \/ FineStep
    \/ FineFinish
    \/ CoarseStep
    \/ CoarseFinish
    \/ Report

SpecHarness == HarnessInit /\ [][HarnessNext]_vars

(***************************************************************************)
(* Properties of mexFunction and stockPath (specification Spec)            *)
(***************************************************************************)
ERR_ALPHA == "alpha must be larger than zero"
ERR_METHOD == "Only 'euler', 'milstein' and 'rk' are implemented"

NoStream ==
    /\ rng_stock.state = "null"
    /\ rng_vol.state = "null"
    /\ rng_stock.calls = 0
    /\ rng_vol.calls = 0

InStockPath == pc \in {"sample", "step", "free", "done"}

\* C1: when alpha <= 0 or mexFunction does not recognize the method name, and
\* whenever one of the two configuration errors has been raised, no generator
\* has been allocated or set and no normal draw has been taken - at every
\* point of the run.
C1_NoStreamOnConfigError ==
    (~(prhs.alpha > 0) \/ MethodOf(prhs.method) = NO_METHOD
        \/ errmsg \in {ERR_ALPHA, ERR_METHOD}) => NoStream

C1_Witness ==
    /\ pc = "error"
    /\ errmsg = ERR_METHOD
    /\ prhs.alpha > 0
    /\ plhs
    /\ NoStream

\* C2 (as claimed): a run that ends in a configuration error (alpha or method
\* name) has created none of the three output matrices.
C2_NoMatrixOnConfigError ==
    (pc = "error" /\ errmsg \in {ERR_ALPHA, ERR_METHOD}) => ~plhs

\* C3 (as claimed): a call with non-positive Dt, T or sample_count never
\* reaches stockPath.
C3_NonPositiveRejected ==
    (prhs.Dt <= 0 \/ prhs.T <= 0 \/ prhs.samples <= 0)
        => pc \notin {"call", "sample", "step", "free", "done", "crashed"}

\* C4 (as claimed): a selector that is not exactly "euler", "milstein" or "rk"
\* selects no scheme and the call does not get past the selection.
C4_ExactNamesOnly ==
    prhs.method \notin {STR_EULER, STR_MILSTEIN, STR_RK}
        => /\ num_method = NO_METHOD
           /\ pc \notin {"rng_alloc", "rng_set", "call", "sample", "step", "free",
                         "done", "crashed"}

\* sample s has its element jj written
Written(s, jj) == s < i \/ (s = i /\ pc = "step" /\ jj < j)

\* C5: from the moment the head of a sample's path is stored until stockPath has
\* completed (and after), element 0 of every sample s in 0..samples-1 whose path
\* has a first element (N >= 1) holds S_0, sigma_0 and xi_0 in the three
\* matrices; no later step changes it.
C5_InitialColumn ==
    (InStockPath /\ N >= 1) =>
        \A s \in 0 .. (samples - 1) :
            Written(s, 0) =>
                /\ stock_paths[s * N] = Arg("S_0")
                /\ vol_paths[s * N] = Arg("sigma_0")
                /\ xi_paths[s * N] = Arg("xi_0")

C5_Witness ==
    /\ pc = "done"
    /\ N >= 2
    /\ samples >= 2
    /\ oob = {}
    /\ stock_paths[N] = Arg("S_0")

\* C6: a second, independent invocation with the same arguments that completes
\* returns matrices of the same shape that equal those of the first
\* invocation element for element.
C6_Deterministic ==
    (run = 2 /\ pc = "done") =>
        /\ first.valid
        /\ first.rows = N
        /\ first.cols = samples
        /\ first.stock = stock_paths
        /\ first.vol = vol_paths
        /\ first.xi = xi_paths

C6_Witness ==
    /\ run = 2
    /\ pc = "done"
    /\ N >= 2
    /\ samples >= 2
    /\ rng_vol.calls >= 2
    /\ first.stock = stock_paths

\* number of inner-loop iterations per sample
StepsPerPath == IF N >= 1 THEN N - 1 ELSE 0

\* number of inner-loop iterations executed so far
StepsDone == IF pc = "step" THEN i * StepsPerPath + (j - 1) ELSE i * StepsPerPath

\* C9: every inner-loop iteration has taken exactly one draw from each stream,
\* and every written element at step jj >= 1 of sample s is the selected scheme
\* (stock, vol) resp. the RK4 formula (xi) applied to the elements at step
\* jj - 1 of the same sample, with the draw of that iteration.
C9_StepFromPrevious ==
    InStockPath =>
        /\ rng_stock.calls = StepsDone
        /\ rng_vol.calls = StepsDone
        /\ \A s \in 0 .. (samples - 1) : \A jj \in 1 .. (N - 1) :
              Written(s, jj) =>
                  LET k == s * N + jj
                      d == s * (N - 1) + jj
                  IN  /\ stock_paths[k] =
                            CallScheme(num_method_stock(num_method), stock_paths[k - 1],
                                       vol_paths[k - 1], Arg("mu"), Arg("Dt"),
                                       Mul(Gaussian(prhs.seed, d), Sqrt(Arg("Dt"))))
                      /\ vol_paths[k] =
                            CallScheme(num_method_vol(num_method), vol_paths[k - 1],
                                       xi_paths[k - 1], Arg("p"), Arg("Dt"),
                                       Mul(Gaussian(prhs.seed + 1, d), Sqrt(Arg("Dt"))))
                      /\ xi_paths[k] = RK4(vol_paths[k - 1], xi_paths[k - 1])

C9_Witness ==
    /\ pc = "done"
    /\ N >= 3
    /\ samples >= 2
    /\ num_method = MILSTEIN
    /\ rng_stock.calls = samples * (N - 1)

\* C10 (as claimed): for every accepted call, every element index stockPath
\* touches lies inside the matrices, the running index is s*N + j, and at the
\* end every element has been written exactly once.
C10_BufferSafe ==
    /\ oob = {}
    /\ (pc = "step" => index = i * N + j)
    /\ (pc = "sample" => index = i * N)
    /\ (pc = "done" => \A k \in DOMAIN wcount : wcount[k] = 1)

(***************************************************************************)
(* Properties of the convergence harness (specification SpecHarness)       *)
(***************************************************************************)
\* the draws the reference loop consumed while advancing over [a, b]
FineDrawsOver(a, b) ==
    { d \in DOMAIN hw.fine_log : hw.fine_log[d].from >= a /\ hw.fine_log[d].t <= b }

\* C7 (as claimed): every coarse increment is the sum of exactly the fine draws
\* the reference path consumed over the same time interval, for both noise
\* sources, and the groups of different coarse steps are disjoint.
C7_CommonRandomNumbers ==
    hw.pc = "coarse" =>
        \A m \in 2 .. (hw.i - 1) :
            /\ hw.cell[m].w = FineDrawsOver(hw.cell[m].from, hw.cell[m].t)
            /\ hw.cell[m].w1 = FineDrawsOver(hw.cell[m].from, hw.cell[m].t)
            /\ \A n \in 2 .. (hw.i - 1) : n # m => hw.cell[m].w \cap hw.cell[n].w = {}

\* C8 (as claimed): the terminal values accumulated for the reference path and
\* for each coarse path stand for the same simulated time.
C8_FixedHorizon ==
    \A c \in 1 .. Levels : hw.mean_terms[c] > 0 => hw.mean_t[c] = hw.solution_t

====
